---------------------------- MODULE Spec2Model ----------------------------
(***************************************************************************)
(* The native side of the Java binding of the Exonum storage: the MemoryDB *)
(* entry points (memorydb.rs) and the MapIndexProxy entry points           *)
(* (map_index.rs).  Every native object lives in a Box whose address is    *)
(* handed to the host as a Handle; the host passes the Handle back on      *)
(* every later call.                                                       *)
(***************************************************************************)
EXTENDS Integers, Sequences, FiniteSets, TLC

(* ------------------------------ bounds --------------------------------- *)

\* Number of addresses the allocator has for a Box of each type.
MaxDbs == 1
MaxViews == 2
MaxIdxs == 2
MaxIters == 2
\* Number of entries the views hold together.
MaxEntries == 2
\* The scenario of the map operations: views and indexes kept at a time.
MapsViews == 1
MapsIdxs == 2
\* The scenario of the iterators: indexes and entries kept at a time.
ItersIdxs == 1
ItersEntries == 3
\* The scenario of all the calls: entries and iterators kept at a time.
AllEntries == 1
AllIters == 1
\* The scenario of the iterators: iterators kept at a time.
ItersIters == 1
\* The scenario of the views: entries kept at a time.
ViewsEntries == 2
\* The scenario of the handles: objects of each type and entries kept at a time.
HandlesObjects == 1
\* The scenario of the readers: index handles, iterators and entries kept at
\* a time.
ReadersIdxs == 2
ReadersIters == 2
ReadersEntries == 2

(* --------------------------- value domains ----------------------------- *)

\* The allocator keeps the Boxes of one type (one size) together: each type
\* has its own addresses, and an address is used again once its Box is dropped.
DbAddrs == 1..MaxDbs
ViewAddrs == (MaxDbs + 1)..(MaxDbs + MaxViews)
IdxAddrs == (MaxDbs + MaxViews + 1)..(MaxDbs + MaxViews + MaxIdxs)
IterAddrs == (MaxDbs + MaxViews + MaxIdxs + 1)..(MaxDbs + MaxViews + MaxIdxs + MaxIters)
Addrs == DbAddrs \cup ViewAddrs \cup IdxAddrs \cup IterAddrs
\* The null pointer: what Handle::default() / ptr::null_mut() give.
NullHandle == 0

\* Raw keys, chosen so that byte-lexicographic order differs from
\* length-first order:  <<1>> < <<1,2>> < <<2>>.
Keys == {<<1>>, <<1, 2>>, <<2>>}
\* Raw values; the empty value is a present value.
Values == {<<>>, <<7>>}
\* Index names and group names.
Names == {"m", "n"}
\* Identifiers of the instances of an index family.
Ids == {<<1>>, <<2>>}

\* Option<T> of the engine.
None == <<"none">>
Some(v) == <<"some", v>>

\* Host references as they cross the boundary: a null reference, a byte
\* array, a string, a two-field entry object.
JNull == <<"null">>
JArr(b) == <<"arr", b>>
JStr(s) == <<"str", s>>
JEntry(k, v) == <<"entry", k, v>>
JBool(b) == <<"bool", b>>
JHandle(h) == <<"handle", h>>
JVoid == <<"void">>

KeyArgs == {JArr(k) : k \in Keys} \cup {JNull}
ValueArgs == {JArr(v) : v \in Values} \cup {JNull}
NameArgs == {JStr(n) : n \in Names} \cup {JNull}
IdArgs == {JArr(i) : i \in Ids} \cup {JNull}

\* Result<T, JniError> of the closure run under catch_unwind.
Ok(v) == <<"ok", v>>
Err(m) == <<"err", m>>
\* The payload catch_unwind gives for a panic.
Panic(m) == <<"panic", m>>
IsOk(r) == r[1] = "ok"

\* The pending host exception a call leaves behind.
NoExc == <<"none">>
Thrown(m) == <<"exception", m>>

\* The message of the panic raised for a mutation of a snapshot.
IllegalMutation == "Unable to modify snapshot."

(* ------------------------ JNI argument decoding ------------------------ *)

\* JNIEnv::convert_byte_array: a null array is a JNI error.
convert_byte_array(a) == IF a = JNull THEN Err("NullPtr") ELSE Ok(a[2])
\* utils::convert_to_string: a null string is a JNI error.
convert_to_string(s) == IF s = JNull THEN Err("NullPtr") ELSE Ok(s[2])
\* JNIEnv::byte_array_from_slice: fails when the host cannot allocate.
byte_array_from_slice(b, jniOk) == IF jniOk THEN Ok(JArr(b)) ELSE Err("JavaException")

(* ---------------------- the storage engine (Exonum) -------------------- *)

\* The physical namespace of an index: its own name, or the group name
\* and the instance identifier.
Plain(name) == <<"index", name>>
Family(group, id) == <<"family", group, id>>
Namespaces == {Plain(n) : n \in Names} \cup {Family(g, i) : g \in Names, i \in Ids}

EmptyMap == [k \in Keys |-> None]
\* MemoryDB::new(): no index holds anything.
EmptyStore == [ns \in Namespaces |-> EmptyMap]

\* Byte-lexicographic order of keys.
LexLess(a, b) ==
    \E i \in 1..(Len(a) + 1) :
        /\ \A j \in 1..(i - 1) : j <= Len(b) /\ a[j] = b[j]
        /\ \/ i = Len(a) + 1 /\ Len(b) >= i
           \/ i <= Len(a) /\ i <= Len(b) /\ a[i] < b[i]
LexLeq(a, b) == a = b \/ LexLess(a, b)

map_get(m, k) == m[k]
map_contains(m, k) == m[k] # None
map_put(m, k, v) == [m EXCEPT ![k] = Some(v)]
map_remove(m, k) == [m EXCEPT ![k] = None]
map_clear(m) == EmptyMap

Present(m) == {k \in Keys : m[k] # None}

\* A cursor: the keys not below `lo` (above it when `strict`).
InRange(k, lo, strict) ==
    \/ lo = None
    \/ IF strict THEN LexLess(lo[2], k) ELSE LexLeq(lo[2], k)
Remaining(m, lo, strict) == {k \in Present(m) : InRange(k, lo, strict)}
\* The least remaining key, None when nothing remains.
FirstKey(m, lo, strict) ==
    LET r == Remaining(m, lo, strict) IN
    IF r = {} THEN None
    ELSE Some(CHOOSE k \in r : \A o \in r : LexLeq(k, o))


(* ------------------------------- state --------------------------------- *)

VARIABLES
    dbs,      \* address -> contents of the MemoryDB boxed there
    views,    \* address -> the View boxed there: its tag and what it shows
    idxs,     \* address -> the IndexType boxed there
    iters,    \* address -> the iterator boxed there
    policy,   \* what an iterator over a Fork sees of later writes
    retired,  \* history: the handles freed so far, when the history is kept
    crashed   \* the process was ended by a fault the boundary cannot catch

vars == <<dbs, views, idxs, iters, policy, retired, crashed>>

\* The addresses that hold a live Box.
Live == DOMAIN dbs \cup DOMAIN views \cup DOMAIN idxs \cup DOMAIN iters
\* Where the allocator places the next Box of a type (Box::new in
\* utils::to_handle): the lowest address of the type that is not in use.
Free(pool) ==
    IF pool \ Live = {} THEN {}
    ELSE {CHOOSE a \in pool \ Live : \A b \in pool \ Live : a <= b}

Without(f, h) == [a \in DOMAIN f \ {h} |-> f[a]]

\* The history of a run that keeps none: no handle has this value.
Untracked == {NullHandle}
\* The history after handle h was freed.
Retire(h) == IF retired = Untracked THEN retired ELSE retired \cup {h}

\* An index, an iterator whose borrow has ended: the Box is still live, what
\* it referred to is gone.
DanglingIndex(ix) == [ix EXCEPT !.valid = FALSE, !.view = NullHandle]
DanglingIter(it) ==
    [it EXCEPT !.valid = FALSE, !.view = NullHandle, !.index = NullHandle,
               !.lo = None, !.strict = FALSE, !.done = FALSE, !.snap = EmptyMap]

\* A handle the host may still use: the Box is live and so is everything
\* it borrows from.
UsableIndex(h) == h \in DOMAIN idxs /\ idxs[h].valid
UsableIter(h, ikind) == h \in DOMAIN iters /\ iters[h].valid /\ iters[h].ikind = ikind

\* The number of entries held by the views `vs`.
HeapEntries(vs) ==
    Cardinality({<<a, ns, k>> \in (DOMAIN vs) \X Namespaces \X Keys : vs[a].store[ns][k] # None})

\* The map an index addresses inside its view.
IndexMap(h) == views[idxs[h].view].store[idxs[h].ns]

(* ----------------------- boundary error translator --------------------- *)

\* utils::unwrap_exc_or: the value of a normal result; otherwise the error
\* value, with the error or the panic thrown to the host.
unwrap_exc_or(res, error_val) ==
    IF res[1] = "ok" THEN [res |-> "ok", ret |-> res[2], exc |-> NoExc]
    ELSE [res |-> res[1], ret |-> error_val, exc |-> Thrown(res[2])]

\* utils::unwrap_or_exception: the same for a closure that returns no JNI
\* error; the error value is the default of the return type.
unwrap_or_exception(res) ==
    IF res[1] = "ok" THEN [res |-> "ok", ret |-> res[2], exc |-> NoExc]
    ELSE [res |-> res[1], ret |-> JHandle(NullHandle), exc |-> Thrown(res[2])]

\* utils::drop_handle, utils::drop_object: the Box is dropped, nothing can fail.
drop_handle == unwrap_exc_or(Ok(JVoid), JVoid)

(* ------------------------------ MemoryDB ------------------------------- *)

Init ==
    /\ dbs = <<>>
    /\ views = <<>>
    /\ idxs = <<>>
    /\ iters = <<>>
    /\ policy \in {"snapshot", "live"}
    /\ retired = Untracked
    /\ crashed = FALSE

\* What each call returns to the host is `...Call`; what it does to the
\* native objects is the action of the same name.

nativeCreateMemoryDBCall(h) == unwrap_or_exception(Ok(JHandle(h)))

nativeCreateMemoryDB ==
    \E h \in Free(DbAddrs) :
        /\ dbs' = dbs @@ (nativeCreateMemoryDBCall(h).ret[2] :> EmptyStore)
        /\ UNCHANGED <<views, idxs, iters, policy, retired, crashed>>

nativeFreeMemoryDBCall(db) == drop_handle

nativeFreeMemoryDB(db) ==
    /\ db \in DOMAIN dbs
    /\ dbs' = Without(dbs, db)
    /\ retired' = Retire(db)
    /\ UNCHANGED <<views, idxs, iters, policy, crashed>>

nativeLookupSnapshotCall(db, h) == unwrap_or_exception(Ok(JHandle(h)))

nativeLookupSnapshot(db) ==
    /\ db \in DOMAIN dbs
    /\ \E h \in Free(ViewAddrs) :
        views' = views @@ (nativeLookupSnapshotCall(db, h).ret[2] :>
                             [kind |-> "Snapshot", store |-> dbs[db]])
    /\ UNCHANGED <<dbs, idxs, iters, policy, retired, crashed>>

nativeLookupForkCall(db, h) == unwrap_or_exception(Ok(JHandle(h)))

nativeLookupFork(db) ==
    /\ db \in DOMAIN dbs
    /\ \E h \in Free(ViewAddrs) :
        views' = views @@ (nativeLookupForkCall(db, h).ret[2] :>
                             [kind |-> "Fork", store |-> dbs[db]])
    /\ UNCHANGED <<dbs, idxs, iters, policy, retired, crashed>>

nativeFreeViewCall(view) == drop_handle

\* Dropping a View ends the borrow of every index and iterator made on it.
nativeFreeView(view) ==
    /\ view \in DOMAIN views
    /\ views' = Without(views, view)
    /\ retired' = Retire(view)
    /\ idxs' = [a \in DOMAIN idxs |->
                  IF idxs[a].view = view THEN DanglingIndex(idxs[a]) ELSE idxs[a]]
    /\ iters' = [a \in DOMAIN iters |->
                  IF iters[a].view = view THEN DanglingIter(iters[a]) ELSE iters[a]]
    /\ UNCHANGED <<dbs, policy, crashed>>

(* ------------------------ MapIndexProxy: create ------------------------ *)

\* The IndexType made for a view: the tag follows the tag of the view.
\* `made` keeps the arguments the host made the index with.
NewIndex(view_handle, ns, made) ==
    [view |-> view_handle,
     kind |-> IF views[view_handle].kind = "Snapshot" THEN "SnapshotIndex" ELSE "ForkIndex",
     ns |-> ns,
     made |-> made,
     valid |-> TRUE]

nativeCreateCall(name, view_handle, h) ==
    LET n == convert_to_string(name) IN
    unwrap_exc_or(IF ~IsOk(n) THEN n ELSE Ok(JHandle(h)), JHandle(NullHandle))

nativeCreate(name, view_handle) ==
    /\ view_handle \in DOMAIN views
    /\ IF nativeCreateCall(name, view_handle, NullHandle).res # "ok"
       THEN UNCHANGED idxs
       ELSE \E h \in Free(IdxAddrs) :
            idxs' = idxs @@ (nativeCreateCall(name, view_handle, h).ret[2] :>
                       NewIndex(view_handle, Plain(convert_to_string(name)[2]), <<name>>))
    /\ UNCHANGED <<dbs, views, iters, policy, retired, crashed>>

nativeCreateInGroupCall(group_name, map_id, view_handle, h) ==
    LET g == convert_to_string(group_name)
        i == convert_byte_array(map_id)
    IN unwrap_exc_or(IF ~IsOk(g) THEN g ELSE IF ~IsOk(i) THEN i ELSE Ok(JHandle(h)),
                     JHandle(NullHandle))

\* nativeCreateInGroup that names the index by its group alone.
nativeCreateInGroup_IgnoresId(group_name, map_id, view_handle) ==
    /\ view_handle \in DOMAIN views
    /\ IF nativeCreateInGroupCall(group_name, map_id, view_handle, NullHandle).res # "ok"
       THEN UNCHANGED idxs
       ELSE \E h \in Free(IdxAddrs) :
            idxs' = idxs @@ (nativeCreateInGroupCall(group_name, map_id, view_handle, h).ret[2] :>
                       NewIndex(view_handle,
                                Family(convert_to_string(group_name)[2], <<1>>),
                                <<group_name, map_id>>))
    /\ UNCHANGED <<dbs, views, iters, policy, retired, crashed>>

nativeCreateInGroup(group_name, map_id, view_handle) ==
    /\ view_handle \in DOMAIN views
    /\ IF nativeCreateInGroupCall(group_name, map_id, view_handle, NullHandle).res # "ok"
       THEN UNCHANGED idxs
       ELSE \E h \in Free(IdxAddrs) :
            idxs' = idxs @@ (nativeCreateInGroupCall(group_name, map_id, view_handle, h).ret[2] :>
                       NewIndex(view_handle,
                                Family(convert_to_string(group_name)[2],
                                       convert_byte_array(map_id)[2]),
                                <<group_name, map_id>>))
    /\ UNCHANGED <<dbs, views, iters, policy, retired, crashed>>

nativeFreeCall(map_handle) == drop_handle

\* Dropping an index ends the borrow of every iterator made on it.
nativeFree(map_handle) ==
    /\ map_handle \in DOMAIN idxs
    /\ idxs' = Without(idxs, map_handle)
    /\ retired' = Retire(map_handle)
    /\ iters' = [a \in DOMAIN iters |->
                  IF iters[a].index = map_handle THEN DanglingIter(iters[a])
                  ELSE iters[a]]
    /\ UNCHANGED <<dbs, views, policy, crashed>>

(* ------------------------- MapIndexProxy: reads ------------------------ *)

\* nativeGet that returns null for a stored empty value.
nativeGetCall_EmptyIsNull(map_handle, key, jniOk) ==
    LET k == convert_byte_array(key)
        val == map_get(IndexMap(map_handle), k[2])
    IN unwrap_exc_or(IF ~IsOk(k) THEN k
                     ELSE IF val = None \/ val = Some(<<>>) THEN Ok(JNull)
                     ELSE byte_array_from_slice(val[2], jniOk),
                     JNull)

\* nativeGet that treats an absent key as an error.
nativeGetCall_AbsentIsError(map_handle, key, jniOk) ==
    LET k == convert_byte_array(key)
        val == map_get(IndexMap(map_handle), k[2])
    IN unwrap_exc_or(IF ~IsOk(k) THEN k
                     ELSE IF val = None THEN Err("NotFound")
                     ELSE byte_array_from_slice(val[2], jniOk),
                     JNull)

nativeGetCall(map_handle, key, jniOk) ==
    LET k == convert_byte_array(key)
        val == map_get(IndexMap(map_handle), k[2])
    IN unwrap_exc_or(IF ~IsOk(k) THEN k
                     ELSE IF val = None THEN Ok(JNull)
                     ELSE byte_array_from_slice(val[2], jniOk),
                     JNull)

nativeGet(map_handle, key, jniOk) ==
    /\ UsableIndex(map_handle)
    /\ UNCHANGED vars

\* nativeContainsKey that answers false for an undecodable key and throws
\* nothing.
nativeContainsKeyCall_SwallowsError(map_handle, key) ==
    LET k == convert_byte_array(key) IN
    IF ~IsOk(k) THEN [res |-> "err", ret |-> JBool(FALSE), exc |-> NoExc]
    ELSE unwrap_exc_or(Ok(JBool(map_contains(IndexMap(map_handle), k[2]))), JBool(FALSE))

nativeContainsKeyCall(map_handle, key) ==
    LET k == convert_byte_array(key) IN
    unwrap_exc_or(IF ~IsOk(k) THEN k
                  ELSE Ok(JBool(map_contains(IndexMap(map_handle), k[2]))),
                  JBool(FALSE))

nativeContainsKey(map_handle, key) ==
    /\ UsableIndex(map_handle)
    /\ UNCHANGED vars

(* ----------------------- MapIndexProxy: mutation ----------------------- *)

\* The views with the map of index `map_handle` replaced by `m`.
WithIndexMap(map_handle, m) ==
    [views EXCEPT ![idxs[map_handle].view].store[idxs[map_handle].ns] = m]

\* nativePut without the check of lines 259-261: a Snapshot-backed index is
\* written like a Fork-backed one.
nativePutCall_NoSnapshotCheck(map_handle, key, value) ==
    LET k == convert_byte_array(key)
        v == convert_byte_array(value)
    IN unwrap_exc_or(IF ~IsOk(k) THEN k
                     ELSE IF ~IsOk(v) THEN v
                     ELSE Ok(JVoid),
                     JVoid)

nativePutCall(map_handle, key, value) ==
    LET k == convert_byte_array(key)
        v == convert_byte_array(value)
    IN unwrap_exc_or(IF idxs[map_handle].kind = "SnapshotIndex" THEN Panic(IllegalMutation)
                     ELSE IF ~IsOk(k) THEN k
                     ELSE IF ~IsOk(v) THEN v
                     ELSE Ok(JVoid),
                     JVoid)

\* nativePut that writes into every view that is live.
nativePut_WritesAllViews(map_handle, key, value) ==
    /\ UsableIndex(map_handle)
    /\ views' = IF nativePutCall(map_handle, key, value).res = "ok"
                THEN [a \in DOMAIN views |->
                         [views[a] EXCEPT !.store[idxs[map_handle].ns] =
                             map_put(@, convert_byte_array(key)[2],
                                     convert_byte_array(value)[2])]]
                ELSE views
    /\ UNCHANGED <<dbs, idxs, iters, policy, retired, crashed>>

\* nativePut that stores the key before the value is decoded.
nativePut_PutsBeforeDecode(map_handle, key, value) ==
    /\ UsableIndex(map_handle)
    /\ views' = IF /\ idxs[map_handle].kind = "ForkIndex"
                   /\ IsOk(convert_byte_array(key))
                THEN WithIndexMap(map_handle,
                                  map_put(IndexMap(map_handle), convert_byte_array(key)[2],
                                          IF IsOk(convert_byte_array(value))
                                          THEN convert_byte_array(value)[2] ELSE <<>>))
                ELSE views
    /\ UNCHANGED <<dbs, idxs, iters, policy, retired, crashed>>

\* nativePut that decodes the value from the key argument.
nativePut_ValueFromKey(map_handle, key, value) ==
    /\ UsableIndex(map_handle)
    /\ views' = IF nativePutCall(map_handle, key, value).res = "ok"
                THEN WithIndexMap(map_handle,
                                  map_put(IndexMap(map_handle), convert_byte_array(key)[2],
                                          convert_byte_array(key)[2]))
                ELSE views
    /\ UNCHANGED <<dbs, idxs, iters, policy, retired, crashed>>

nativePut(map_handle, key, value) ==
    /\ UsableIndex(map_handle)
    /\ views' = IF nativePutCall(map_handle, key, value).res = "ok"
                THEN WithIndexMap(map_handle,
                                  map_put(IndexMap(map_handle), convert_byte_array(key)[2],
                                          convert_byte_array(value)[2]))
                ELSE views
    /\ UNCHANGED <<dbs, idxs, iters, policy, retired, crashed>>

\* nativeRemove that treats an absent key as an error.
nativeRemoveCall_AbsentIsError(map_handle, key) ==
    LET k == convert_byte_array(key) IN
    unwrap_exc_or(IF idxs[map_handle].kind = "SnapshotIndex" THEN Panic(IllegalMutation)
                  ELSE IF ~IsOk(k) THEN k
                  ELSE IF ~map_contains(IndexMap(map_handle), k[2]) THEN Err("NotFound")
                  ELSE Ok(JVoid),
                  JVoid)

nativeRemoveCall(map_handle, key) ==
    LET k == convert_byte_array(key) IN
    unwrap_exc_or(IF idxs[map_handle].kind = "SnapshotIndex" THEN Panic(IllegalMutation)
                  ELSE IF ~IsOk(k) THEN k
                  ELSE Ok(JVoid),
                  JVoid)

nativeRemove(map_handle, key) ==
    /\ UsableIndex(map_handle)
    /\ views' = IF nativeRemoveCall(map_handle, key).res = "ok"
                THEN WithIndexMap(map_handle,
                                  map_remove(IndexMap(map_handle), convert_byte_array(key)[2]))
                ELSE views
    /\ UNCHANGED <<dbs, idxs, iters, policy, retired, crashed>>

nativeClearCall(map_handle) ==
    unwrap_exc_or(IF idxs[map_handle].kind = "SnapshotIndex" THEN Panic(IllegalMutation)
                  ELSE Ok(JVoid),
                  JVoid)

\* nativeClear that empties every namespace of the view that starts with the
\* name of the index.
nativeClear_WholeName(map_handle) ==
    /\ UsableIndex(map_handle)
    /\ views' = IF nativeClearCall(map_handle).res = "ok"
                THEN [views EXCEPT ![idxs[map_handle].view].store =
                         [ns \in Namespaces |->
                             IF ns[2] = idxs[map_handle].ns[2] THEN EmptyMap ELSE @[ns]]]
                ELSE views
    /\ UNCHANGED <<dbs, idxs, iters, policy, retired, crashed>>

nativeClear(map_handle) ==
    /\ UsableIndex(map_handle)
    /\ views' = IF nativeClearCall(map_handle).res = "ok"
                THEN WithIndexMap(map_handle, map_clear(IndexMap(map_handle)))
                ELSE views
    /\ UNCHANGED <<dbs, idxs, iters, policy, retired, crashed>>

(* ----------------------- MapIndexProxy: iterators ---------------------- *)

\* The cursor made by iter / keys / values (lo = None) or by
\* iter_from / keys_from / values_from (lo = Some(key), inclusive).
NewIter(map_handle, ikind, lo) ==
    [index |-> map_handle,
     view |-> idxs[map_handle].view,
     ns |-> idxs[map_handle].ns,
     ikind |-> ikind,
     lo |-> lo,
     strict |-> FALSE,
     done |-> FALSE,
     snap |-> IF policy = "live" THEN EmptyMap ELSE IndexMap(map_handle),
     valid |-> TRUE]

\* The map a cursor walks: the index as it is now, or as it was when the
\* cursor was made.
IterMap(it) == IF policy = "live" THEN views[it.view].store[it.ns] ELSE it.snap

\* Iterator::next of the engine on a cursor that walks map `m`: the key the
\* cursor yields, None when it is exhausted; exhaustion is remembered.
IterPeek(it, m) == IF it.done THEN None ELSE FirstKey(m, it.lo, it.strict)
IterAdvance(it, m) ==
    IF IterPeek(it, m) = None
    THEN [it EXCEPT !.done = TRUE, !.lo = None, !.strict = FALSE, !.snap = EmptyMap]
    ELSE [it EXCEPT !.lo = IterPeek(it, m), !.strict = TRUE]

\* PairIter::new: looks up the entry class and its constructor in the host.
PairIterNew(classOk) == IF classOk THEN Ok(JVoid) ELSE Err("ClassNotFound")

\* The starting key of a seeked iterator.
SeekKey(key) == Some(convert_byte_array(key)[2])

\* The values an iterator handle may take.
IterHandles == IterAddrs \cup {NullHandle}

\* The effect shared by the six iterator constructors: the iterator is boxed
\* when everything before to_handle succeeded. `call` gives the outcome of
\* the call for each address to_handle may return.
MakeIter(call, map_handle, ikind, lo) ==
    /\ UsableIndex(map_handle)
    /\ IF call[NullHandle].res # "ok"
       THEN UNCHANGED iters
       ELSE \E h \in Free(IterAddrs) :
            iters' = iters @@ (call[h].ret[2] :> NewIter(map_handle, ikind, lo))
    /\ UNCHANGED <<dbs, views, idxs, policy, retired, crashed>>

nativeCreateEntriesIterCall(map_handle, classOk, h) ==
    unwrap_exc_or(IF ~IsOk(PairIterNew(classOk)) THEN PairIterNew(classOk) ELSE Ok(JHandle(h)),
                  JHandle(NullHandle))

\* nativeCreateEntriesIter that boxes the engine's iterator before it looks up
\* the entry class.
nativeCreateEntriesIter_Leaks(map_handle, classOk) ==
    /\ UsableIndex(map_handle)
    /\ \E h \in Free(IterAddrs) :
          iters' = iters @@ (h :> NewIter(map_handle, "entries", None))
    /\ UNCHANGED <<dbs, views, idxs, policy, retired, crashed>>

nativeCreateEntriesIter(map_handle, classOk) ==
    MakeIter([h \in IterHandles |-> nativeCreateEntriesIterCall(map_handle, classOk, h)],
             map_handle, "entries", None)

nativeCreateKeysIterCall(map_handle, h) == unwrap_exc_or(Ok(JHandle(h)), JHandle(NullHandle))

nativeCreateKeysIter(map_handle) ==
    MakeIter([h \in IterHandles |-> nativeCreateKeysIterCall(map_handle, h)],
             map_handle, "keys", None)

nativeCreateValuesIterCall(map_handle, h) == unwrap_exc_or(Ok(JHandle(h)), JHandle(NullHandle))

nativeCreateValuesIter(map_handle) ==
    MakeIter([h \in IterHandles |-> nativeCreateValuesIterCall(map_handle, h)],
             map_handle, "values", None)

nativeCreateIterFromCall(map_handle, key, classOk, h) ==
    LET k == convert_byte_array(key) IN
    unwrap_exc_or(IF ~IsOk(k) THEN k
                  ELSE IF ~IsOk(PairIterNew(classOk)) THEN PairIterNew(classOk)
                  ELSE Ok(JHandle(h)),
                  JHandle(NullHandle))

\* nativeCreateIterFrom that starts at the first entry, whatever the key.
nativeCreateIterFrom_IgnoresKey(map_handle, key, classOk) ==
    MakeIter([h \in IterHandles |-> nativeCreateIterFromCall(map_handle, key, classOk, h)],
             map_handle, "entries", None)

nativeCreateIterFrom(map_handle, key, classOk) ==
    MakeIter([h \in IterHandles |-> nativeCreateIterFromCall(map_handle, key, classOk, h)],
             map_handle, "entries", SeekKey(key))

nativeKeysFromCall(map_handle, key, h) ==
    LET k == convert_byte_array(key) IN
    unwrap_exc_or(IF ~IsOk(k) THEN k ELSE Ok(JHandle(h)), JHandle(NullHandle))

nativeKeysFrom(map_handle, key) ==
    MakeIter([h \in IterHandles |-> nativeKeysFromCall(map_handle, key, h)],
             map_handle, "keys", SeekKey(key))

nativeValuesFromCall(map_handle, key, h) ==
    LET k == convert_byte_array(key) IN
    unwrap_exc_or(IF ~IsOk(k) THEN k ELSE Ok(JHandle(h)), JHandle(NullHandle))

nativeValuesFrom(map_handle, key) ==
    MakeIter([h \in IterHandles |-> nativeValuesFromCall(map_handle, key, h)],
             map_handle, "values", SeekKey(key))

\* The effect shared by the three next calls: the cursor moves whether or
\* not the element can be handed to the host.
StepIter(iter_handle, ikind) ==
    /\ UsableIter(iter_handle, ikind)
    /\ iters' = [iters EXCEPT ![iter_handle] =
                     IterAdvance(iters[iter_handle], IterMap(iters[iter_handle]))]
    /\ UNCHANGED <<dbs, views, idxs, policy, retired, crashed>>

nativeEntriesIterNextCall(iter_handle, jniOk) ==
    LET it == iters[iter_handle]
        nxt == IterPeek(it, IterMap(it))
    IN unwrap_exc_or(IF nxt = None THEN Ok(JNull)
                     ELSE IF ~jniOk THEN Err("JavaException")
                     ELSE Ok(JEntry(nxt[2], IterMap(it)[nxt[2]][2])),
                     JNull)

\* nativeEntriesIterNext that rewinds the cursor when it comes to the end.
nativeEntriesIterNext_Restarts(iter_handle, jniOk) ==
    /\ UsableIter(iter_handle, "entries")
    /\ iters' = [iters EXCEPT ![iter_handle] =
                     IF IterPeek(@, IterMap(@)) = None
                     THEN [@ EXCEPT !.lo = None, !.strict = FALSE, !.done = FALSE]
                     ELSE IterAdvance(@, IterMap(@))]
    /\ UNCHANGED <<dbs, views, idxs, policy, retired, crashed>>

\* nativeEntriesIterNext on a cursor shared by the iterators of one view.
nativeEntriesIterNext_SharedCursor(iter_handle, jniOk) ==
    /\ UsableIter(iter_handle, "entries")
    /\ iters' = [i \in DOMAIN iters |->
                    IF iters[i].valid /\ iters[i].view = iters[iter_handle].view
                    THEN IterAdvance(iters[i], IterMap(iters[i]))
                    ELSE iters[i]]
    /\ UNCHANGED <<dbs, views, idxs, policy, retired, crashed>>

nativeEntriesIterNext(iter_handle, jniOk) == StepIter(iter_handle, "entries")

nativeKeysIterNextCall(iter_handle, jniOk) ==
    LET it == iters[iter_handle]
        nxt == IterPeek(it, IterMap(it))
    IN unwrap_exc_or(IF nxt = None THEN Ok(JNull) ELSE byte_array_from_slice(nxt[2], jniOk),
                     JNull)

nativeKeysIterNext(iter_handle, jniOk) == StepIter(iter_handle, "keys")

\* nativeValuesIterNext that yields the key of the entry.
nativeValuesIterNextCall_YieldsKey(iter_handle, jniOk) ==
    LET it == iters[iter_handle]
        nxt == IterPeek(it, IterMap(it))
    IN unwrap_exc_or(IF nxt = None THEN Ok(JNull) ELSE byte_array_from_slice(nxt[2], jniOk),
                     JNull)

nativeValuesIterNextCall(iter_handle, jniOk) ==
    LET it == iters[iter_handle]
        nxt == IterPeek(it, IterMap(it))
    IN unwrap_exc_or(IF nxt = None THEN Ok(JNull)
                     ELSE byte_array_from_slice(IterMap(it)[nxt[2]][2], jniOk),
                     JNull)

nativeValuesIterNext(iter_handle, jniOk) == StepIter(iter_handle, "values")

\* The effect shared by the three iterator free calls.
DropIter(iter_handle, ikind) ==
    /\ iter_handle \in DOMAIN iters
    /\ iters[iter_handle].ikind = ikind
    /\ iters' = Without(iters, iter_handle)
    /\ retired' = Retire(iter_handle)
    /\ UNCHANGED <<dbs, views, idxs, policy, crashed>>

nativeEntriesIterFreeCall(iter_handle) == drop_handle

\* nativeEntriesIterFree that drops every iterator of the index with it.
nativeEntriesIterFree_DropsSiblings(iter_handle) ==
    /\ iter_handle \in DOMAIN iters
    /\ iters[iter_handle].ikind = "entries"
    /\ iters' = [i \in {j \in DOMAIN iters : iters[j].index # iters[iter_handle].index} |->
                    iters[i]]
    /\ retired' = Retire(iter_handle)
    /\ UNCHANGED <<dbs, views, idxs, policy, crashed>>

nativeEntriesIterFree(iter_handle) == DropIter(iter_handle, "entries")

nativeKeysIterFreeCall(iter_handle) == drop_handle

nativeKeysIterFree(iter_handle) == DropIter(iter_handle, "keys")

nativeValuesIterFreeCall(iter_handle) == drop_handle

nativeValuesIterFree(iter_handle) == DropIter(iter_handle, "values")

(* --------------------------- the host's calls -------------------------- *)

\* What the host of one scenario does: the keys, values, names, group names
\* and identifiers it passes (each set may hold the null reference), and how
\* many views, indexes, iterators and entries it keeps at a time.
Host(K, V, N, G, I, nViews, nIdxs, nIters, nEntries) ==
    [K |-> K, V |-> V, N |-> N, G |-> G, I |-> I,
     nViews |-> nViews, nIdxs |-> nIdxs, nIters |-> nIters, nEntries |-> nEntries]

Count(f) == Cardinality(DOMAIN f)

\* The calls on databases and views.
DbCalls(H) ==
    \/ nativeCreateMemoryDB
    \/ \E db \in DbAddrs : nativeFreeMemoryDB(db)
    \/ \E db \in DbAddrs : Count(views) < H.nViews /\ nativeLookupSnapshot(db)
    \/ \E db \in DbAddrs : Count(views) < H.nViews /\ nativeLookupFork(db)
    \/ \E view \in ViewAddrs : nativeFreeView(view)

\* The calls on map indexes.
MapCalls(H) ==
    \/ \E name \in H.N, view \in ViewAddrs : Count(idxs) < H.nIdxs /\ nativeCreate(name, view)
    \/ \E group \in H.G, id \in H.I, view \in ViewAddrs :
          Count(idxs) < H.nIdxs /\ nativeCreateInGroup(group, id, view)
    \/ \E h \in IdxAddrs : nativeFree(h)
    \/ \E h \in IdxAddrs, key \in H.K, jniOk \in BOOLEAN : nativeGet(h, key, jniOk)
    \/ \E h \in IdxAddrs, key \in H.K : nativeContainsKey(h, key)
    \/ \E h \in IdxAddrs, key \in H.K, value \in H.V :
          nativePut(h, key, value) /\ HeapEntries(views') <= H.nEntries
    \/ \E h \in IdxAddrs, key \in H.K : nativeRemove(h, key)
    \/ \E h \in IdxAddrs : nativeClear(h)

\* The calls that make, advance and free iterators.
IterCalls(H) ==
    \/ \E h \in IdxAddrs, classOk \in BOOLEAN :
          Count(iters) < H.nIters /\ nativeCreateEntriesIter(h, classOk)
    \/ \E h \in IdxAddrs : Count(iters) < H.nIters /\ nativeCreateKeysIter(h)
    \/ \E h \in IdxAddrs : Count(iters) < H.nIters /\ nativeCreateValuesIter(h)
    \/ \E h \in IdxAddrs, key \in H.K, classOk \in BOOLEAN :
          Count(iters) < H.nIters /\ nativeCreateIterFrom(h, key, classOk)
    \/ \E h \in IdxAddrs, key \in H.K : Count(iters) < H.nIters /\ nativeKeysFrom(h, key)
    \/ \E h \in IdxAddrs, key \in H.K : Count(iters) < H.nIters /\ nativeValuesFrom(h, key)
    \/ \E h \in IterAddrs, jniOk \in BOOLEAN : nativeEntriesIterNext(h, jniOk)
    \/ \E h \in IterAddrs, jniOk \in BOOLEAN : nativeKeysIterNext(h, jniOk)
    \/ \E h \in IterAddrs, jniOk \in BOOLEAN : nativeValuesIterNext(h, jniOk)
    \/ \E h \in IterAddrs : nativeEntriesIterFree(h)
    \/ \E h \in IterAddrs : nativeKeysIterFree(h)
    \/ \E h \in IterAddrs : nativeValuesIterFree(h)

(* ------------------------------ scenarios ------------------------------ *)

\* Every call of the boundary, on one key, one value, one name and one
\* identifier (and the null reference for each).
HostAll ==
    Host({JArr(<<2>>), JNull}, {JArr(<<7>>), JNull}, {JStr("m"), JNull}, {JStr("m"), JNull},
         {JArr(<<1>>), JNull}, MaxViews, MaxIdxs, AllIters, AllEntries)

Next == DbCalls(HostAll) \/ MapCalls(HostAll) \/ IterCalls(HostAll)

Spec == Init /\ [][Next]_vars

\* The map operations on plain indexes and on the instances of one family,
\* without iterators.
HostMaps ==
    Host(KeyArgs, ValueArgs, {JStr("m"), JNull}, {JStr("m"), JNull}, IdArgs,
         MapsViews, MapsIdxs, 0, MaxEntries)

InitMaps == Init /\ policy = "live"

NextMaps == DbCalls(HostMaps) \/ MapCalls(HostMaps)

SpecMaps == InitMaps /\ [][NextMaps]_vars

\* The iterators of one plain index, with every key.
HostIters ==
    Host(KeyArgs, ValueArgs, {JStr("m")}, {}, {}, MapsViews, ItersIdxs, ItersIters, ItersEntries)

NextIters == DbCalls(HostIters) \/ MapCalls(HostIters) \/ IterCalls(HostIters)

SpecIters == Init /\ [][NextIters]_vars

\* A Snapshot and a Fork of one database, with the indexes of one name.
HostViews ==
    Host({JArr(<<2>>), JNull}, {JArr(<<7>>), JNull}, {JStr("m")}, {}, {},
         MaxViews, MaxIdxs, 0, ViewsEntries)

NextViews == DbCalls(HostViews) \/ MapCalls(HostViews)

SpecViews == InitMaps /\ [][NextViews]_vars

\* A call with a handle that was freed and whose address holds no Box now.
\* cast_handle, drop_handle and drop_object use the address unchecked; what a
\* read or a second drop of freed memory does is undefined: the call may
\* return as if the object were there, or the process may be ended by the
\* allocator or by a memory fault, which catch_unwind does not catch.
UseFreed(h) ==
    /\ ~crashed
    /\ h \in retired /\ h \notin Live
    /\ crashed' \in BOOLEAN
    /\ UNCHANGED <<dbs, views, idxs, iters, policy, retired>>

\* One object of each type at a time, with the history of the freed handles,
\* and calls with freed handles.
HostHandles ==
    Host({JArr(<<2>>)}, {JArr(<<7>>)}, {JStr("m")}, {JStr("m")}, {JArr(<<1>>)},
         HandlesObjects, HandlesObjects, HandlesObjects, HandlesObjects)

InitHandles ==
    /\ dbs = <<>> /\ views = <<>> /\ idxs = <<>> /\ iters = <<>>
    /\ policy = "live"
    /\ retired = {}
    /\ crashed = FALSE

\* No call is made once the process has ended.
NextHandles ==
    \/ ~crashed /\ DbCalls(HostHandles)
    \/ ~crashed /\ MapCalls(HostHandles)
    \/ ~crashed /\ IterCalls(HostHandles)
    \/ \E h \in Addrs : UseFreed(h)

SpecHandles == InitHandles /\ [][NextHandles]_vars

\* Two index handles on one view and one name, as two threads of the host
\* hold them, with two iterators between them.
HostReaders ==
    Host({JArr(<<1>>), JArr(<<2>>)}, {JArr(<<7>>)}, {JStr("m")}, {}, {},
         MapsViews, ReadersIdxs, ReadersIters, ReadersEntries)

NextReaders == DbCalls(HostReaders) \/ MapCalls(HostReaders) \/ IterCalls(HostReaders)

SpecReaders == Init /\ [][NextReaders]_vars

\* One index of two entries with two iterators on it.
HostCursors ==
    Host({JArr(<<1>>), JArr(<<2>>)}, {JArr(<<7>>)}, {JStr("m")}, {}, {},
         MapsViews, ItersIdxs, ReadersIters, ReadersEntries)

NextCursors == DbCalls(HostCursors) \/ MapCalls(HostCursors) \/ IterCalls(HostCursors)

SpecCursors == Init /\ [][NextCursors]_vars

(* ----------------------------- properties ------------------------------ *)

ForkIndex(h) == UsableIndex(h) /\ idxs[h].kind = "ForkIndex"
SnapshotIndex(h) == UsableIndex(h) /\ idxs[h].kind = "SnapshotIndex"
\* Two usable indexes that address the same namespace of the same view.
SameMap(h1, h2) ==
    /\ UsableIndex(h1) /\ UsableIndex(h2)
    /\ idxs[h1].view = idxs[h2].view /\ idxs[h1].ns = idxs[h2].ns

\* A call that returned `v` and left no error pending.
Gave(call, v) == call.res = "ok" /\ call.ret = v /\ call.exc = NoExc

\* C1, first half: a nativePut(k, v) on a Fork-backed index succeeds, and
\* after it nativeGet(k) returns v and nativeContainsKey(k) returns true.
C1_Put ==
    \A h \in IdxAddrs, k \in Keys, v \in Values :
        (ForkIndex(h) /\ nativePut(h, JArr(k), JArr(v))) =>
            /\ Gave(nativePutCall(h, JArr(k), JArr(v)), JVoid)
            /\ Gave(nativeGetCall(h, JArr(k), TRUE), JArr(v))'
            /\ Gave(nativeContainsKeyCall(h, JArr(k)), JBool(TRUE))'

\* C1, second half: what nativeGet(k) and nativeContainsKey(k) return on a
\* Fork-backed index changes only by a nativeRemove(k), a nativeClear() or a
\* nativePut(k, v2) on the same namespace.
C1_Keep ==
    \A h \in IdxAddrs, k \in Keys :
        (/\ ForkIndex(h) /\ ForkIndex(h)'
         /\ \/ nativeGetCall(h, JArr(k), TRUE)' # nativeGetCall(h, JArr(k), TRUE)
            \/ nativeContainsKeyCall(h, JArr(k))' # nativeContainsKeyCall(h, JArr(k)))
        => \E h2 \in IdxAddrs :
              /\ SameMap(h, h2)
              /\ \/ nativeRemove(h2, JArr(k))
                 \/ nativeClear(h2)
                 \/ \E v2 \in Values : nativePut(h2, JArr(k), JArr(v2))

\* C1: after a successful nativePut(k, v) on a Fork-backed index, nativeGet(k)
\* returns v and nativeContainsKey(k) returns true until the next
\* nativeRemove(k), nativeClear() or overwriting nativePut(k, v2) on the same
\* namespace; calls on other keys do not change the result for k.
C1_PutThenGet == [][C1_Put /\ C1_Keep]_vars

\* A Fork-backed index that holds <<1>> -> <<7>> beside another key.
C1_Witness ==
    \E h \in IdxAddrs :
        /\ ForkIndex(h)
        /\ IndexMap(h)[<<1>>] = Some(<<7>>)
        /\ IndexMap(h)[<<2>>] = Some(<<>>)

\* What every mutating call on a Snapshot-backed index returns: the panic
\* raised before any argument is decoded, thrown to the host.
IllegalMutationThrown(call) ==
    call.res = "panic" /\ call.ret = JVoid /\ call.exc = Thrown(IllegalMutation)

C2_Fails ==
    \A h \in IdxAddrs :
        SnapshotIndex(h) =>
            /\ \A key \in KeyArgs, value \in ValueArgs :
                  IllegalMutationThrown(nativePutCall(h, key, value))
            /\ \A key \in KeyArgs : IllegalMutationThrown(nativeRemoveCall(h, key))
            /\ IllegalMutationThrown(nativeClearCall(h))

C2_Unchanged ==
    \A h \in IdxAddrs :
        (/\ SnapshotIndex(h)
         /\ \/ \E key \in KeyArgs, value \in ValueArgs : nativePut(h, key, value)
            \/ \E key \in KeyArgs : nativeRemove(h, key)
            \/ nativeClear(h))
        => views' = views /\ iters' = iters

\* C2: nativePut, nativeRemove and nativeClear on a Snapshot-backed index fail
\* with the illegal-mutation error, whatever the key and value arguments
\* (null references included), and leave what every view shows, and every
\* iterator, unchanged.
C2_SnapshotReadOnly == []C2_Fails /\ [][C2_Unchanged]_vars

\* A usable index on a Snapshot.
C2_Witness == \E h \in IdxAddrs : SnapshotIndex(h)

\* The keys of S as a sequence in strictly increasing byte-lexicographic order.
Sorted(S) ==
    CHOOSE q \in [1..Cardinality(S) -> S] :
        \A a, b \in 1..Cardinality(S) : a < b => LexLess(q[a], q[b])

\* The (key, value) pairs of map `m` whose key is in S, in increasing key order.
SortedEntries(m, S) ==
    LET q == Sorted(S) IN [n \in 1..Cardinality(S) |-> <<q[n], m[q[n]][2]>>]

\* What successive next calls on iterator `it` yield until exhaustion, when
\* nothing is written in between.
RECURSIVE DrainMap(_, _)
DrainMap(it, m) ==
    LET nxt == IterPeek(it, m) IN
    IF nxt = None THEN <<>>
    ELSE <<<<nxt[2], m[nxt[2]][2]>>>> \o DrainMap(IterAdvance(it, m), m)

Drain(it) == DrainMap(it, IterMap(it))

\* C3, creation: a new entries iterator will yield all the pairs of the map
\* in increasing key order; one made by nativeCreateIterFrom(key) will yield
\* those with a key >= key.
C3_Create ==
    \A h \in IdxAddrs, i \in IterAddrs :
        (i \notin DOMAIN iters /\ i \in DOMAIN iters') =>
            /\ nativeCreateEntriesIter(h, TRUE) =>
                  DrainMap(iters'[i], IterMap(iters[i])') =
                      SortedEntries(IndexMap(h), Present(IndexMap(h)))
            /\ \A key \in Keys :
                  nativeCreateIterFrom(h, JArr(key), TRUE) =>
                      DrainMap(iters'[i], IterMap(iters[i])') =
                          SortedEntries(IndexMap(h),
                                        {k \in Present(IndexMap(h)) : LexLeq(key, k)})

\* C3, next: nativeEntriesIterNext returns the first pair still to come and
\* leaves the rest to come, or reports exhaustion when none is.
C3_Next ==
    \A i \in IterAddrs :
        nativeEntriesIterNext(i, TRUE) =>
            LET d == Drain(iters[i]) IN
            IF d = <<>>
            THEN /\ Gave(nativeEntriesIterNextCall(i, TRUE), JNull)
                 /\ DrainMap(iters'[i], IterMap(iters[i])') = <<>>
            ELSE /\ Gave(nativeEntriesIterNextCall(i, TRUE), JEntry(d[1][1], d[1][2]))
                 /\ DrainMap(iters'[i], IterMap(iters[i])') = Tail(d)

\* C3: an entries iterator yields, over successive nativeEntriesIterNext
\* calls, exactly the pairs of the map in strictly increasing
\* byte-lexicographic key order and then reports exhaustion; an iterator from
\* nativeCreateIterFrom(key) yields exactly the suffix that starts at the
\* first stored key >= key, and nothing when there is no such key.
C3_IterationOrder == [][C3_Create /\ C3_Next]_vars

\* An entries iterator over a map of three keys that has yielded <<1>> and
\* <<1, 2>> and has <<2>> to come.
C3_Witness ==
    \E i \in IterAddrs :
        /\ UsableIter(i, "entries")
        /\ Present(IterMap(iters[i])) = Keys
        /\ iters[i].lo = Some(<<1, 2>>) /\ iters[i].strict
        /\ Len(Drain(iters[i])) = 1

\* Two usable family instances of one view and one group with distinct
\* identifiers.
Siblings(hA, hB) ==
    /\ UsableIndex(hA) /\ UsableIndex(hB)
    /\ idxs[hA].view = idxs[hB].view
    /\ Len(idxs[hA].made) = 2 /\ Len(idxs[hB].made) = 2
    /\ idxs[hA].made[1] = idxs[hB].made[1]
    /\ idxs[hA].made[2] # idxs[hB].made[2]

\* What the host can observe through index h: get and contains of every key
\* and the pairs an iteration yields.
Observed(h) ==
    [get |-> [k \in Keys |-> nativeGetCall(h, JArr(k), TRUE)],
     contains |-> [k \in Keys |-> nativeContainsKeyCall(h, JArr(k))],
     entries |-> SortedEntries(IndexMap(h), Present(IndexMap(h)))]

\* C4: a nativePut, nativeRemove or nativeClear on one family instance leaves
\* get, contains and iteration on an instance of the same group and view with
\* a different identifier as they were.
C4_FamilyDisjoint ==
    [][\A hA, hB \in IdxAddrs :
          (/\ Siblings(hA, hB)
           /\ \/ \E key \in KeyArgs, value \in ValueArgs : nativePut(hA, key, value)
              \/ \E key \in KeyArgs : nativeRemove(hA, key)
              \/ nativeClear(hA))
          => Observed(hB)' = Observed(hB)]_vars

\* Two family instances on a Fork: one holds <<1>>, the other does not.
C4_Witness ==
    \E hA, hB \in IdxAddrs :
        /\ Siblings(hA, hB) /\ ForkIndex(hA)
        /\ map_contains(IndexMap(hA), <<1>>)
        /\ ~map_contains(IndexMap(hB), <<1>>)

C6_NoError ==
    \A h \in IdxAddrs, k \in Keys :
        ForkIndex(h) => Gave(nativeRemoveCall(h, JArr(k)), JVoid)

C6_Removed ==
    \A h \in IdxAddrs, k \in Keys :
        (ForkIndex(h) /\ nativeRemove(h, JArr(k))) =>
            /\ Gave(nativeGetCall(h, JArr(k), TRUE), JNull)'
            /\ Gave(nativeContainsKeyCall(h, JArr(k)), JBool(FALSE))'
            /\ \A o \in Keys \ {k} : IndexMap(h)'[o] = IndexMap(h)[o]
            /\ ~map_contains(IndexMap(h), k) => views' = views

\* C6: nativeRemove(k) on a Fork-backed index raises no error, whether k is
\* present or absent; after it nativeGet(k) is absent and nativeContainsKey(k)
\* is false, and when k was absent the contents are unchanged.
C6_Remove == []C6_NoError /\ [][C6_Removed]_vars

\* A Fork-backed index from which a key is absent while another is present.
C6_Witness ==
    \E h \in IdxAddrs :
        /\ ForkIndex(h)
        /\ ~map_contains(IndexMap(h), <<1>>)
        /\ map_contains(IndexMap(h), <<2>>)

\* C7: for every usable index, on a Snapshot or a Fork, and every key,
\* nativeContainsKey returns true exactly when nativeGet returns a value.
C7_ContainsIffGet ==
    \A h \in IdxAddrs :
        UsableIndex(h) =>
            \A k \in Keys :
                /\ nativeContainsKeyCall(h, JArr(k)).exc = NoExc
                /\ nativeGetCall(h, JArr(k), TRUE).exc = NoExc
                /\ nativeContainsKeyCall(h, JArr(k)).ret = JBool(TRUE)
                       <=> nativeGetCall(h, JArr(k), TRUE).ret # JNull

\* A usable index that holds a key with the empty value and lacks another key.
C7_Witness ==
    \E h \in IdxAddrs :
        /\ UsableIndex(h)
        /\ IndexMap(h)[<<1>>] = Some(<<>>)
        /\ IndexMap(h)[<<2>>] = None

C8_Absent ==
    \A h \in IdxAddrs :
        UsableIndex(h) =>
            \A k \in Keys :
                ~map_contains(IndexMap(h), k) =>
                    /\ Gave(nativeContainsKeyCall(h, JArr(k)), JBool(FALSE))
                    /\ \A jniOk \in BOOLEAN : Gave(nativeGetCall(h, JArr(k), jniOk), JNull)

\* A key comes to be in a namespace of a view by a nativePut of that key
\* there and in no other way; a new view holds no key.
C8_OnlyPut ==
    \A view \in ViewAddrs, ns \in Namespaces, k \in Keys :
        /\ (view \notin DOMAIN views /\ view \in DOMAIN views') =>
               views'[view].store[ns][k] = None
        /\ (/\ view \in DOMAIN views /\ view \in DOMAIN views'
            /\ views[view].store[ns][k] = None
            /\ views'[view].store[ns][k] # None)
           => \E h \in IdxAddrs, v \in Values :
                 /\ UsableIndex(h) /\ idxs[h].view = view /\ idxs[h].ns = ns
                 /\ nativePut(h, JArr(k), JArr(v))

\* C8: for a key that has never been put into the namespace of an index,
\* nativeContainsKey returns false and nativeGet returns null, both as normal
\* results with no error pending.
C8_NeverInserted == []C8_Absent /\ [][C8_OnlyPut]_vars

\* A Fork-backed index in which one key was put and another never was.
C8_Witness ==
    \E h \in IdxAddrs :
        /\ ForkIndex(h)
        /\ IndexMap(h)[<<1, 2>>] = Some(<<7>>)
        /\ IndexMap(h)[<<1>>] = None

\* The next call of the kind of iterator i.
NextCall(i, jniOk) ==
    IF iters[i].ikind = "entries" THEN nativeEntriesIterNextCall(i, jniOk)
    ELSE IF iters[i].ikind = "keys" THEN nativeKeysIterNextCall(i, jniOk)
    ELSE nativeValuesIterNextCall(i, jniOk)

NextStep(i) ==
    \/ nativeEntriesIterNext(i, TRUE)
    \/ nativeKeysIterNext(i, TRUE)
    \/ nativeValuesIterNext(i, TRUE)

\* An iterator whose next call has returned the exhausted result.
Exhausted(i) == i \in DOMAIN iters /\ iters[i].valid /\ iters[i].done

C9_StaysExhausted ==
    \A i \in IterAddrs :
        Exhausted(i) => \A jniOk \in BOOLEAN : Gave(NextCall(i, jniOk), JNull)

C9_Terminal ==
    \A i \in IterAddrs :
        /\ (NextStep(i) /\ Gave(NextCall(i, TRUE), JNull)) => iters'[i].done
        /\ (i \in DOMAIN iters /\ i \in DOMAIN iters' /\ ~iters[i].done /\ iters'[i].done)
               => NextStep(i) /\ Gave(NextCall(i, TRUE), JNull)
        /\ (Exhausted(i) /\ i \in DOMAIN iters' /\ iters'[i].valid) => iters'[i].done

\* C9: once a next call of an iterator has returned the exhausted result,
\* every later next call on that iterator returns it too, whatever is put
\* into the index in between.
C9_ExhaustionTerminal == []C9_StaysExhausted /\ [][C9_Terminal]_vars

\* An exhausted iterator that reads the index as it is now, over an index
\* that holds entries.
C9_Witness ==
    \E i \in IterAddrs :
        /\ Exhausted(i)
        /\ policy = "live"
        /\ Present(IterMap(iters[i])) = Keys

\* The results a call may return.
HandleResults == {JHandle(a) : a \in Addrs}
ArrayResults == {JNull} \cup {JArr(b) : b \in Keys \cup Values}
EntryResults == {JNull} \cup {JEntry(k, v) : k \in Keys, v \in Values}
BoolResults == {JBool(b) : b \in BOOLEAN}

\* The two outcomes of a call: a result of its type and nothing pending, or
\* an error pending and the failure value of its type.
Outcome(call, results, failure) ==
    \/ call.res = "ok" /\ call.exc = NoExc /\ call.ret \in results
    \/ call.res # "ok" /\ call.exc # NoExc /\ call.ret = failure

C10_Db ==
    /\ \A a \in DbAddrs :
          Outcome(nativeCreateMemoryDBCall(a), HandleResults, JHandle(NullHandle))
    /\ \A db \in DOMAIN dbs :
          /\ Outcome(nativeFreeMemoryDBCall(db), {JVoid}, JVoid)
          /\ \A a \in ViewAddrs :
                /\ Outcome(nativeLookupSnapshotCall(db, a), HandleResults, JHandle(NullHandle))
                /\ Outcome(nativeLookupForkCall(db, a), HandleResults, JHandle(NullHandle))
    /\ \A view \in DOMAIN views :
          /\ Outcome(nativeFreeViewCall(view), {JVoid}, JVoid)
          /\ \A a \in IdxAddrs, name \in NameArgs :
                /\ Outcome(nativeCreateCall(name, view, a), HandleResults, JHandle(NullHandle))
                /\ \A id \in IdArgs :
                      Outcome(nativeCreateInGroupCall(name, id, view, a),
                              HandleResults, JHandle(NullHandle))

C10_Map ==
    \A h \in IdxAddrs :
        UsableIndex(h) =>
            /\ Outcome(nativeFreeCall(h), {JVoid}, JVoid)
            /\ Outcome(nativeClearCall(h), {JVoid}, JVoid)
            /\ \A key \in KeyArgs :
                  /\ \A jniOk \in BOOLEAN :
                        Outcome(nativeGetCall(h, key, jniOk), ArrayResults, JNull)
                  /\ Outcome(nativeContainsKeyCall(h, key), BoolResults, JBool(FALSE))
                  /\ Outcome(nativeRemoveCall(h, key), {JVoid}, JVoid)
                  /\ \A value \in ValueArgs :
                        Outcome(nativePutCall(h, key, value), {JVoid}, JVoid)
            /\ \A a \in IterAddrs :
                  /\ Outcome(nativeCreateKeysIterCall(h, a), HandleResults, JHandle(NullHandle))
                  /\ Outcome(nativeCreateValuesIterCall(h, a), HandleResults, JHandle(NullHandle))
                  /\ \A classOk \in BOOLEAN :
                        Outcome(nativeCreateEntriesIterCall(h, classOk, a),
                                HandleResults, JHandle(NullHandle))
                  /\ \A key \in KeyArgs :
                        /\ Outcome(nativeKeysFromCall(h, key, a),
                                   HandleResults, JHandle(NullHandle))
                        /\ Outcome(nativeValuesFromCall(h, key, a),
                                   HandleResults, JHandle(NullHandle))
                        /\ \A classOk \in BOOLEAN :
                              Outcome(nativeCreateIterFromCall(h, key, classOk, a),
                                      HandleResults, JHandle(NullHandle))

C10_Iter ==
    \A i \in IterAddrs :
        /\ UsableIter(i, "entries") =>
              /\ Outcome(nativeEntriesIterFreeCall(i), {JVoid}, JVoid)
              /\ \A jniOk \in BOOLEAN :
                    Outcome(nativeEntriesIterNextCall(i, jniOk), EntryResults, JNull)
        /\ UsableIter(i, "keys") =>
              /\ Outcome(nativeKeysIterFreeCall(i), {JVoid}, JVoid)
              /\ \A jniOk \in BOOLEAN :
                    Outcome(nativeKeysIterNextCall(i, jniOk), ArrayResults, JNull)
        /\ UsableIter(i, "values") =>
              /\ Outcome(nativeValuesIterFreeCall(i), {JVoid}, JVoid)
              /\ \A jniOk \in BOOLEAN :
                    Outcome(nativeValuesIterNextCall(i, jniOk), ArrayResults, JNull)

\* C10: every call either returns a result of its type with no error
\* pending, or leaves an error pending and returns the failure value of its
\* return type: the null handle, null, false, or nothing for a void call.
C10_Outcomes == C10_Db /\ C10_Map /\ C10_Iter

\* A database, a view, a usable index that holds an entry and a usable
\* iterator with an entry to come.
C10_Witness ==
    /\ dbs # <<>>
    /\ \E h \in IdxAddrs : UsableIndex(h) /\ Present(IndexMap(h)) # {}
    /\ \E i \in IterAddrs :
          /\ i \in DOMAIN iters /\ iters[i].valid
          /\ IterPeek(iters[i], IterMap(iters[i])) # None

\* A call that left an error pending.
Failed(call) == call.exc # NoExc

\* C11, the errors: a nativePut whose key or value cannot be decoded, and a
\* nativeRemove whose key cannot, end with the decoding error.
C11_Errors ==
    \A h \in IdxAddrs :
        ForkIndex(h) =>
            /\ \A key \in KeyArgs, value \in ValueArgs :
                  (key = JNull \/ value = JNull) =>
                      nativePutCall(h, key, value) =
                          [res |-> "err", ret |-> JVoid, exc |-> Thrown("NullPtr")]
            /\ nativeRemoveCall(h, JNull) =
                   [res |-> "err", ret |-> JVoid, exc |-> Thrown("NullPtr")]

\* C11, the calls on an index: one that ends with an error changes nothing.
C11_FailedCall ==
    \A h \in IdxAddrs :
        /\ \A key \in KeyArgs, value \in ValueArgs :
              (nativePut(h, key, value) /\ Failed(nativePutCall(h, key, value)))
                  => UNCHANGED vars
        /\ \A key \in KeyArgs :
              (nativeRemove(h, key) /\ Failed(nativeRemoveCall(h, key))) => UNCHANGED vars
        /\ (nativeClear(h) /\ Failed(nativeClearCall(h))) => UNCHANGED vars

\* C11, every call: what a view shows changes only in a nativePut,
\* nativeRemove or nativeClear that left no error pending.
C11_OnlySuccess ==
    \A view \in ViewAddrs :
        (view \in DOMAIN views /\ view \in DOMAIN views' /\ views'[view] # views[view])
        => \E h \in IdxAddrs :
              /\ UsableIndex(h) /\ idxs[h].view = view
              /\ \/ \E key \in KeyArgs, value \in ValueArgs :
                       nativePut(h, key, value) /\ ~Failed(nativePutCall(h, key, value))
                 \/ \E key \in KeyArgs :
                       nativeRemove(h, key) /\ ~Failed(nativeRemoveCall(h, key))
                 \/ nativeClear(h) /\ ~Failed(nativeClearCall(h))

\* C11: a call that ends with an illegal-mutation or a decoding error leaves
\* the contents of every index unchanged; a nativePut on a Fork-backed index
\* whose key or value fails to decode inserts nothing.
C11_NoPartialChange == []C11_Errors /\ [][C11_FailedCall /\ C11_OnlySuccess]_vars

\* A Fork-backed index that holds an entry, on which a call with a null
\* reference fails.
C11_Witness ==
    \E h \in IdxAddrs :
        /\ ForkIndex(h)
        /\ IndexMap(h)[<<2>>] = Some(<<7>>)
        /\ Failed(nativePutCall(h, JArr(<<1>>), JNull))
        /\ Failed(nativePutCall(h, JNull, JArr(<<7>>)))

\* C12: the handle a create call returns differs from every handle returned
\* before, freed ones included: the value of a freed handle never again
\* identifies a live object.
C12_HandlesUnique == retired \cap Live = {}

\* The pairs an entries iterator made now on index h, from the start
\* (lo = None) or from a key, would yield.
EntriesFrom(h, lo) == DrainMap(NewIter(h, "entries", lo), IndexMap(h))

\* C13, creation: a new keys or values iterator has to come what an entries
\* iterator made by the same call on the same index would have.
C13_Create ==
    \A h \in IdxAddrs, i \in IterAddrs :
        (i \notin DOMAIN iters /\ i \in DOMAIN iters') =>
            /\ (nativeCreateKeysIter(h) \/ nativeCreateValuesIter(h)) =>
                  DrainMap(iters'[i], IterMap(iters[i])') = EntriesFrom(h, None)
            /\ \A key \in Keys :
                  (nativeKeysFrom(h, JArr(key)) \/ nativeValuesFrom(h, JArr(key))) =>
                      DrainMap(iters'[i], IterMap(iters[i])') =
                          EntriesFrom(h, SeekKey(JArr(key)))

\* C13, next: a keys iterator returns the key, a values iterator the value,
\* of the first pair to come, or null when there is none.
C13_Yield ==
    \A i \in IterAddrs :
        /\ UsableIter(i, "keys") =>
              Gave(nativeKeysIterNextCall(i, TRUE),
                   IF Drain(iters[i]) = <<>> THEN JNull ELSE JArr(Drain(iters[i])[1][1]))
        /\ UsableIter(i, "values") =>
              Gave(nativeValuesIterNextCall(i, TRUE),
                   IF Drain(iters[i]) = <<>> THEN JNull ELSE JArr(Drain(iters[i])[1][2]))

\* C13, next: the call leaves the rest of the pairs to come.
C13_Next ==
    \A i \in IterAddrs :
        (nativeKeysIterNext(i, TRUE) \/ nativeValuesIterNext(i, TRUE)) =>
            DrainMap(iters'[i], IterMap(iters[i])') =
                IF Drain(iters[i]) = <<>> THEN <<>> ELSE Tail(Drain(iters[i]))

\* C13: the keys and the values iterators yield the key components and the
\* value components of the sequence the entries iterator made by the
\* corresponding call (same starting key) yields on the same index in the
\* same state, in the same order and of the same length.
C13_Projection == []C13_Yield /\ [][C13_Create /\ C13_Next]_vars

\* A values iterator over a map of three keys that has yielded one value.
C13_Witness ==
    \E i \in IterAddrs :
        /\ UsableIter(i, "values")
        /\ Present(IterMap(iters[i])) = Keys
        /\ iters[i].lo = Some(<<1>>) /\ iters[i].strict
        /\ Len(Drain(iters[i])) = 2

\* C14: while a Snapshot is live what it shows stays as it is, and so do the
\* results of get, contains and iteration of every index made on it,
\* whatever is done through the Forks of the same database.
C14_PointInTime ==
    [][/\ \A view \in ViewAddrs :
             (/\ view \in DOMAIN views /\ view \in DOMAIN views'
              /\ views[view].kind = "Snapshot")
             => views'[view] = views[view]
       /\ \A h \in IdxAddrs :
             (SnapshotIndex(h) /\ SnapshotIndex(h)') => Observed(h)' = Observed(h)]_vars

\* A usable index on a Snapshot beside a Fork of the same database into which
\* a key was put under the same name.
C14_Witness ==
    \E h, f \in IdxAddrs :
        /\ SnapshotIndex(h) /\ ForkIndex(f)
        /\ idxs[h].ns = idxs[f].ns
        /\ map_contains(IndexMap(f), <<2>>)
        /\ ~map_contains(IndexMap(h), <<2>>)

\* The objects made from a parent that are still live.
IndexChildren(h) == {i \in DOMAIN iters : iters[i].index = h}
ViewChildren(view) == {h \in DOMAIN idxs : idxs[h].view = view}

\* C15: every live iterator has a live parent index and every live index a
\* live parent view; a nativeFree or nativeFreeView of a parent that still
\* has live children ends with an error.
C15_NoDanglingChild ==
    /\ \A i \in DOMAIN iters : iters[i].index \in DOMAIN idxs
    /\ \A h \in DOMAIN idxs : idxs[h].view \in DOMAIN views
    /\ \A h \in DOMAIN idxs : IndexChildren(h) # {} => Failed(nativeFreeCall(h))
    /\ \A view \in DOMAIN views : ViewChildren(view) # {} => Failed(nativeFreeViewCall(view))

\* The free call of the type of objects handle h is given to.
FreeCallOn(h) ==
    IF h \in DbAddrs THEN nativeFreeMemoryDBCall(h)
    ELSE IF h \in ViewAddrs THEN nativeFreeViewCall(h)
    ELSE IF h \in IdxAddrs THEN nativeFreeCall(h)
    ELSE nativeEntriesIterFreeCall(h)

\* C16: a call with a handle that was freed is reported as an error and the
\* process is never ended by it.
C16_UseAfterFree ==
    /\ ~crashed
    /\ \A h \in retired \cap Live : Failed(FreeCallOn(h))

\* C17: a nativePut, nativeRemove or nativeClear on a Snapshot-backed index
\* ends as a condition the closure raised itself (an Err it returned), not
\* as a panic caught by catch_unwind.
C17_Deliberate ==
    \A h \in IdxAddrs :
        SnapshotIndex(h) =>
            /\ \A key \in KeyArgs, value \in ValueArgs :
                  nativePutCall(h, key, value).res = "err"
            /\ \A key \in KeyArgs : nativeRemoveCall(h, key).res = "err"
            /\ nativeClearCall(h).res = "err"

\* A read made through index handle h or through an iterator made on it:
\* nativeGet, nativeContainsKey, one of the six iterator constructors, or one
\* of the three next calls.
ReadBy(h) ==
    \/ \E key \in KeyArgs, jniOk \in BOOLEAN : nativeGet(h, key, jniOk)
    \/ \E key \in KeyArgs : nativeContainsKey(h, key)
    \/ \E classOk \in BOOLEAN : nativeCreateEntriesIter(h, classOk)
    \/ nativeCreateKeysIter(h)
    \/ nativeCreateValuesIter(h)
    \/ \E key \in KeyArgs, classOk \in BOOLEAN : nativeCreateIterFrom(h, key, classOk)
    \/ \E key \in KeyArgs : nativeKeysFrom(h, key)
    \/ \E key \in KeyArgs : nativeValuesFrom(h, key)
    \/ \E i \in IterAddrs, jniOk \in BOOLEAN :
          /\ i \in DOMAIN iters /\ iters[i].valid /\ iters[i].index = h
          /\ \/ nativeEntriesIterNext(i, jniOk)
             \/ nativeKeysIterNext(i, jniOk)
             \/ nativeValuesIterNext(i, jniOk)

\* The usable iterators made on index handle h.
IteratorsOf(h) == {i \in DOMAIN iters : iters[i].valid /\ iters[i].index = h}

\* Index handles hA and hB of two threads wrap the same Snapshot.
SameSnapshot(hA, hB) ==
    /\ hA # hB
    /\ SnapshotIndex(hA) /\ SnapshotIndex(hB)
    /\ idxs[hA].view = idxs[hB].view

\* C18: a read one thread makes through its own index handle or iterators
\* on a Snapshot leaves what every other thread reads through its own handle
\* and iterators on that Snapshot as it was: the results of get and contains,
\* the pairs an iteration yields, and the result of the next call of each of
\* its iterators.
C18_ReadersIsolated ==
    [][\A hA, hB \in IdxAddrs :
        (SameSnapshot(hA, hB) /\ ReadBy(hA)) =>
            /\ SnapshotIndex(hB)'
            /\ Observed(hB)' = Observed(hB)
            /\ \A j \in IteratorsOf(hB) :
                  /\ j \in IteratorsOf(hB)'
                  /\ iters'[j] = iters[j]
                  /\ \A jniOk \in BOOLEAN : NextCall(j, jniOk)' = NextCall(j, jniOk)]_vars

\* Two handles on one Snapshot, an iterator on each, one of them advanced.
C18_Witness ==
    \E hA, hB \in IdxAddrs :
        /\ SameSnapshot(hA, hB)
        /\ \E i \in IteratorsOf(hA), j \in IteratorsOf(hB) :
              iters[i].done /\ ~iters[j].done

\* The handles a step brings to life.
Born == Live' \ Live

\* A step that makes at most the object whose handle the call returns:
\* nothing when the call failed, one new handle otherwise, the returned one.
Allocates(failed, ret) ==
    IF failed THEN Live' = Live
    ELSE \E h \in Born : Born = {h} /\ Live \subseteq Live' /\ ret[h] = JHandle(h)

\* C19: a failed nativeCreate, nativeCreateInGroup, nativeCreateEntriesIter
\* or nativeCreateIterFrom returns the null handle and leaves the set of
\* live handles as it was; a handle comes to life only in a call that
\* succeeds and returns it.
C19_NullOnFailure ==
    /\ \A view \in DOMAIN views, a \in IdxAddrs \cup {NullHandle} :
          /\ \A name \in NameArgs :
                Failed(nativeCreateCall(name, view, a)) =>
                    nativeCreateCall(name, view, a).ret = JHandle(NullHandle)
          /\ \A group \in NameArgs, id \in IdArgs :
                Failed(nativeCreateInGroupCall(group, id, view, a)) =>
                    nativeCreateInGroupCall(group, id, view, a).ret = JHandle(NullHandle)
    /\ \A h \in IdxAddrs, i \in IterHandles, classOk \in BOOLEAN :
          UsableIndex(h) =>
              /\ Failed(nativeCreateEntriesIterCall(h, classOk, i)) =>
                    nativeCreateEntriesIterCall(h, classOk, i).ret = JHandle(NullHandle)
              /\ \A key \in KeyArgs :
                    Failed(nativeCreateIterFromCall(h, key, classOk, i)) =>
                        nativeCreateIterFromCall(h, key, classOk, i).ret = JHandle(NullHandle)

C19_Allocation ==
    /\ \A view \in ViewAddrs, name \in NameArgs :
          nativeCreate(name, view) =>
              Allocates(Failed(nativeCreateCall(name, view, NullHandle)),
                        [a \in IdxAddrs |-> nativeCreateCall(name, view, a).ret])
    /\ \A view \in ViewAddrs, group \in NameArgs, id \in IdArgs :
          nativeCreateInGroup(group, id, view) =>
              Allocates(Failed(nativeCreateInGroupCall(group, id, view, NullHandle)),
                        [a \in IdxAddrs |-> nativeCreateInGroupCall(group, id, view, a).ret])
    /\ \A h \in IdxAddrs, classOk \in BOOLEAN :
          /\ nativeCreateEntriesIter(h, classOk) =>
                Allocates(Failed(nativeCreateEntriesIterCall(h, classOk, NullHandle)),
                          [a \in IterAddrs |-> nativeCreateEntriesIterCall(h, classOk, a).ret])
          /\ \A key \in KeyArgs :
                nativeCreateIterFrom(h, key, classOk) =>
                    Allocates(Failed(nativeCreateIterFromCall(h, key, classOk, NullHandle)),
                              [a \in IterAddrs |-> nativeCreateIterFromCall(h, key, classOk, a).ret])

C19_FailedCreate == []C19_NullOnFailure /\ [][Live' # Live => C19_Allocation]_vars

\* A usable index with room for an iterator, on which nativeCreateEntriesIter
\* fails when the entry class is not found and nativeCreateIterFrom fails on
\* a null key, and a view with room for an index, on which nativeCreate fails
\* on a null name.
C19_Witness ==
    /\ \E h \in IdxAddrs :
          /\ UsableIndex(h)
          /\ Free(IterAddrs) # {}
          /\ Failed(nativeCreateEntriesIterCall(h, FALSE, NullHandle))
          /\ Failed(nativeCreateIterFromCall(h, JNull, TRUE, NullHandle))
    /\ \E view \in DOMAIN views :
          /\ Free(IdxAddrs) # {}
          /\ Failed(nativeCreateCall(JNull, view, NullHandle))
          /\ Failed(nativeCreateInGroupCall(JStr("m"), JNull, view, NullHandle))

\* A next or a free call on iterator i.
NextOrFree(i) ==
    \/ \E jniOk \in BOOLEAN :
          \/ nativeEntriesIterNext(i, jniOk)
          \/ nativeKeysIterNext(i, jniOk)
          \/ nativeValuesIterNext(i, jniOk)
    \/ nativeEntriesIterFree(i)
    \/ nativeKeysIterFree(i)
    \/ nativeValuesIterFree(i)

\* Iterators i and j walk the same index: the same name in the same view.
SameIndex(i, j) == iters[i].view = iters[j].view /\ iters[i].ns = iters[j].ns

\* No step that changes the contents of a view is a read.
C20_Contents == views' # views => \A h \in IdxAddrs : ~ReadBy(h)

\* A next or free call on one iterator leaves every other iterator of the
\* same index where it was.
C20_OtherIterators ==
    iters' # iters =>
        \A i \in DOMAIN iters :
            NextOrFree(i) =>
                \A j \in DOMAIN iters \ {i} :
                    SameIndex(i, j) => j \in DOMAIN iters' /\ iters'[j] = iters[j]

\* C20: nativeGet, nativeContainsKey, the iterator constructors and the next
\* calls leave the contents of every index as they were, and a next or free
\* call on one iterator leaves the position and the liveness of every other
\* iterator of the same index as they were.
C20_ReadFrame == [][C20_Contents /\ C20_OtherIterators]_vars

\* Two usable iterators on one Fork-backed index of two entries: one in the
\* middle of the iteration, the other not started.
C20_Witness ==
    \E i, j \in DOMAIN iters :
        /\ i # j /\ iters[i].valid /\ iters[j].valid
        /\ iters[i].index = iters[j].index
        /\ ForkIndex(iters[i].index)
        /\ Cardinality(Present(IndexMap(iters[i].index))) = 2
        /\ iters[i].strict /\ ~iters[i].done
        /\ ~iters[j].strict /\ ~iters[j].done

=============================================================================
